---------------------------- MODULE Spec2Model ----------------------------
(***************************************************************************)
(* A model of build.py, the script that freezes EDMarketConnector and      *)
(* post-processes its Windows installer.                                   *)
(*                                                                         *)
(*   Spec       one or more runs of the script's main block                *)
(*   SpecCheck  system_check applied to an arbitrary dist_dir argument     *)
(*   SpecLang   windows_installer_display_lang applied to an arbitrary     *)
(*              descriptor file (the main block never calls it)            *)
(*                                                                         *)
(* Strings are TLA+ strings; Len, \o and SubSeq act on them as on          *)
(* sequences of characters.  File system calls whose outcome the script    *)
(* does not look at (open, write, rmtree, copyfile on distinct files) are  *)
(* taken to succeed.  Assertions are enabled (the interpreter is not run   *)
(* with -O).                                                               *)
(***************************************************************************)
EXTENDS Integers, Sequences, FiniteSets, TLC

VARIABLES
    pc,                   \* position in the main block / system_check
    version_info,         \* sys.version_info, as <<major, minor, micro>>
    platform,             \* sys.platform
    head,                 \* what git_shorthash_from_head() returns for HEAD
    wix,                  \* os.environ.get("WIX"): a path or None
    dist_dir,             \* the argument of system_check
    dirs,                 \* the directories that exist (isdir)
    gitversion,           \* the content of the file .gitversion
    git_shorthash,        \* system_check's local
    GITVERSION_FILENAME,  \* what system_check returned
    l10n_listing,         \* what os.listdir("L10n") returned, once read
    DATA_FILES,           \* what generate_data_files returned
    exit_msg,             \* None while running; else how the process ended
    events,               \* this run's side effects, in order
    rmtree_calls,         \* every path shutil.rmtree was called with
    run_start,            \* gitversion and dirs when this run started
    stamps,               \* per successful stamp write: hash read, content left
    runs,                 \* number of runs started
    lpc,                  \* position in windows_installer_display_lang
    wxs,                  \* the Languages="..." text of <app>.wxs, or None
    lcids,                \* the parsed locale list
    li,                   \* index in lcids of the loop's current locale
    tmp,                  \* the .msi / .mst files in gettempdir(): name -> content
    pkg,                  \* content of the input installer package (filename)
    cmds,                 \* the copies and os.system calls made, in order
    lerr                  \* the exception that ended the function, or None

vars == <<pc, version_info, platform, head, wix, dist_dir, dirs, gitversion,
          git_shorthash, GITVERSION_FILENAME, l10n_listing, DATA_FILES,
          exit_msg, events,
          rmtree_calls, run_start, stamps, runs,
          lpc, wxs, lcids, li, tmp, pkg, cmds, lerr>>

mainVars == <<pc, version_info, platform, head, wix, dist_dir, dirs,
              gitversion, git_shorthash, GITVERSION_FILENAME, l10n_listing,
              DATA_FILES, exit_msg, events, rmtree_calls, run_start, stamps,
              runs>>

langVars == <<lpc, wxs, lcids, li, tmp, pkg, cmds, lerr>>

None == "None"

-----------------------------------------------------------------------------
(* Bounds of the model *)

MaxRuns == 2
MaxListing == 3
MaxLcids == 3

-----------------------------------------------------------------------------
(* Inputs *)

Versions == {<<2, 7, 18>>, <<3, 10, 12>>, <<3, 11, 0>>, <<3, 12, 1>>, <<4, 0, 0>>}
Platforms == {"win32", "linux", "darwin"}
Hashes == {"a1b2c3d", "0f9e8d7"}
DistDirs == {"", ".", "/", "d", "xy", "dist.win32"}
StaleStamps == {"", "a1b2c3d", "1234567\n"}
ListingNames ==
    {"de.strings", "fr.strings", "readme.txt", ".strings", "strings",
     "de.strings.bak"}

RECURSIVE SeqsNoRepeat(_, _)
SeqsNoRepeat(S, n) ==
    IF n = 0 THEN {<<>>}
    ELSE LET shorter == SeqsNoRepeat(S, n - 1)
         IN  shorter \cup
             {Append(s, x) : <<s, x>> \in
                 {p \in shorter \X S : \A i \in 1..Len(p[1]) : p[1][i] # p[2]}}

Listings == SeqsNoRepeat(ListingNames, MaxListing)

-----------------------------------------------------------------------------
(* Constants of the script *)

MinVersion == <<3, 11>>
DIST_DIR == "dist.win32"
gitversion_file == ".gitversion"
appname == "EDMarketConnector"
PLUGINS ==
    <<"plugins/coriolis.py", "plugins/eddn.py", "plugins/edsm.py",
      "plugins/edsy.py", "plugins/inara.py">>

\* line 101: the default language, en_US
DefaultLcid == 1033
\* the arguments and the environment of windows_installer_display_lang;
\* filename is a path outside gettempdir()
filename == "EDMarketConnector_win.msi"
TempDir == "C:\\Temp"
\* the built installer: its ProductLanguage and its embedded transforms
InputPackage == [kind |-> "msi", lang |-> DefaultLcid, subs |-> {}]

MsgVersion == "Unexpected Python version"
MsgPlatform == "Unsupported platform"
MsgHash == "Invalid Git Hash"
PreflightMsgs == {MsgVersion, MsgPlatform, MsgHash}

-----------------------------------------------------------------------------
(* Pure helpers *)

\* Python's < on tuples: lexicographic, a proper prefix is smaller.
RECURSIVE TupleLess(_, _)
TupleLess(a, b) ==
    IF b = <<>> THEN FALSE
    ELSE IF a = <<>> THEN TRUE
    ELSE IF Head(a) # Head(b) THEN Head(a) < Head(b)
    ELSE TupleLess(Tail(a), Tail(b))

\* str.endswith
endswith(x, suffix) ==
    /\ Len(x) >= Len(suffix)
    /\ SubSeq(x, Len(x) - Len(suffix) + 1, Len(x)) = suffix

\* os.path.join of a directory name and a plain file name, on win32
join(a, b) == a \o "\\" \o b

isdir(path, existing) == path \in existing

\* variant: the guard without its length test
ShouldClean_NoLength(d, existing) == d # "" /\ isdir(d, existing)

\* line 44: whether system_check removes the output directory
ShouldClean(d, existing) == d # "" /\ Len(d) > 1 /\ isdir(d, existing)

\* variant: the file opened for appending
WriteStamp_Append(old, text) == old \o text

\* open(gitversion_file, "w+").write(text): the file is truncated first
WriteStamp(old, text) == text

\* variant: ".strings" anywhere in the name instead of at its end
RECURSIVE StringsOf_Contains(_, _)
StringsOf_Contains(l10n_dir, listing) ==
    IF listing = <<>> THEN <<>>
    ELSE LET x == Head(listing)
             rest == StringsOf_Contains(l10n_dir, Tail(listing))
         IN  IF \E i \in 1..Len(x) : endswith(SubSeq(x, 1, i), ".strings")
             THEN <<join(l10n_dir, x)>> \o rest
             ELSE rest

\* line 77: the .strings files of the listing, in listing order
RECURSIVE StringsOf(_, _)
StringsOf(l10n_dir, listing) ==
    IF listing = <<>> THEN <<>>
    ELSE LET x == Head(listing)
             rest == StringsOf(l10n_dir, Tail(listing))
         IN  IF endswith(x, ".strings")
             THEN <<join(l10n_dir, x)>> \o rest
             ELSE rest

generate_data_files(app_name, stamp_file, listing) ==
    LET l10n_dir == "L10n"
        fdevids_dir == "FDevIDs"
    IN  << <<"", <<stamp_file, "WinSparkle.dll", "WinSparkle.pdb",
                   "EUROCAPS.TTF", "ChangeLog.md", "snd_good.wav",
                   "snd_bad.wav", "modules.p", "ships.p",
                   app_name \o ".VisualElementsManifest.xml",
                   app_name \o ".ico",
                   "EDMarketConnector - TRACE.bat",
                   "EDMarketConnector - localserver-auth.bat",
                   "EDMarketConnector - reset-ui.bat">> >>,
           <<l10n_dir, StringsOf(l10n_dir, listing)>>,
           <<fdevids_dir, <<join(fdevids_dir, "commodity.csv"),
                            join(fdevids_dir, "rare_commodity.csv")>> >>,
           <<"plugins", PLUGINS>> >>

-----------------------------------------------------------------------------
(* The main block and system_check *)

LangIdle ==
    /\ lpc = "idle"
    /\ wxs = None
    /\ lcids = <<>>
    /\ li = 0
    /\ tmp = <<>>
    /\ pkg = InputPackage
    /\ cmds = <<>>
    /\ lerr = None

InitCheck ==
    /\ pc = "check_version"
    /\ version_info \in Versions
    /\ platform \in Platforms
    /\ head \in Hashes \cup {None}
    /\ wix \in {None, "C:\\WiX"}
    /\ dist_dir \in DistDirs
    /\ dirs \in SUBSET ({dist_dir} \ {""})
    /\ gitversion \in StaleStamps
    /\ git_shorthash = None
    /\ GITVERSION_FILENAME = None
    /\ l10n_listing = None
    /\ DATA_FILES = None
    /\ exit_msg = None
    /\ events = <<>>
    /\ rmtree_calls = <<>>
    /\ run_start = [gitversion |-> gitversion, dirs |-> dirs]
    /\ stamps = <<>>
    /\ runs = 1
    /\ LangIdle

\* line 122: the main block passes DIST_DIR
Init == InitCheck /\ dist_dir = DIST_DIR

\* sys.exit(msg), or an exception nobody catches: the process ends here
Exit(msg) ==
    /\ pc' = "exited"
    /\ exit_msg' = msg

\* lines 28-29
SystemCheck_Version ==
    /\ pc = "check_version"
    /\ events' = Append(events, "system_check")
    /\ IF TupleLess(version_info, MinVersion)
       THEN Exit(MsgVersion)
       ELSE pc' = "check_platform" /\ UNCHANGED exit_msg
    /\ UNCHANGED <<version_info, platform, head, wix, dist_dir, dirs,
                   gitversion, git_shorthash, GITVERSION_FILENAME, DATA_FILES,
                   rmtree_calls, run_start, stamps, runs>>
    /\ UNCHANGED langVars
    /\ UNCHANGED l10n_listing

\* variant: the platform message is reported but the build goes on
SystemCheck_Platform_Warn ==
    /\ pc = "check_platform"
    /\ pc' = "get_hash"
    /\ exit_msg' = IF platform # "win32" THEN MsgPlatform ELSE exit_msg
    /\ UNCHANGED <<version_info, platform, head, wix, dist_dir, dirs,
                   gitversion, git_shorthash, GITVERSION_FILENAME, DATA_FILES,
                   events, rmtree_calls, run_start, stamps, runs>>
    /\ UNCHANGED langVars
    /\ UNCHANGED l10n_listing

\* lines 31-32
SystemCheck_Platform ==
    /\ pc = "check_platform"
    /\ IF platform # "win32"
       THEN Exit(MsgPlatform)
       ELSE pc' = "get_hash" /\ UNCHANGED exit_msg
    /\ UNCHANGED <<version_info, platform, head, wix, dist_dir, dirs,
                   gitversion, git_shorthash, GITVERSION_FILENAME, DATA_FILES,
                   events, rmtree_calls, run_start, stamps, runs>>
    /\ UNCHANGED langVars
    /\ UNCHANGED l10n_listing

\* variant: the hash is used without the None test
SystemCheck_Hash_Unchecked ==
    /\ pc = "get_hash"
    /\ git_shorthash' = head
    /\ pc' = "write_stamp"
    /\ UNCHANGED <<version_info, platform, head, wix, dist_dir, dirs,
                   gitversion, GITVERSION_FILENAME, DATA_FILES, exit_msg,
                   events, rmtree_calls, run_start, stamps, runs>>
    /\ UNCHANGED langVars
    /\ UNCHANGED l10n_listing

\* lines 34-36
SystemCheck_Hash ==
    /\ pc = "get_hash"
    /\ git_shorthash' = head
    /\ IF head = None
       THEN Exit(MsgHash)
       ELSE pc' = "write_stamp" /\ UNCHANGED exit_msg
    /\ UNCHANGED <<version_info, platform, head, wix, dist_dir, dirs,
                   gitversion, GITVERSION_FILENAME, DATA_FILES,
                   events, rmtree_calls, run_start, stamps, runs>>
    /\ UNCHANGED langVars
    /\ UNCHANGED l10n_listing

\* lines 38-42
SystemCheck_Stamp ==
    /\ pc = "write_stamp"
    /\ gitversion' = WriteStamp(gitversion, git_shorthash)
    /\ stamps' = Append(stamps, [hash |-> git_shorthash, content |-> gitversion'])
    /\ events' = Append(events, "stamp")
    /\ pc' = "clean"
    /\ UNCHANGED <<version_info, platform, head, wix, dist_dir, dirs,
                   git_shorthash, GITVERSION_FILENAME, DATA_FILES, exit_msg,
                   rmtree_calls, run_start, runs>>
    /\ UNCHANGED langVars
    /\ UNCHANGED l10n_listing

\* lines 44-46
SystemCheck_Clean ==
    /\ pc = "clean"
    /\ IF ShouldClean(dist_dir, dirs)
       THEN /\ dirs' = dirs \ {dist_dir}
            /\ rmtree_calls' = Append(rmtree_calls, dist_dir)
            /\ events' = Append(events, "rmtree")
       ELSE UNCHANGED <<dirs, rmtree_calls, events>>
    /\ GITVERSION_FILENAME' = gitversion_file
    /\ pc' = "constants"
    /\ UNCHANGED <<version_info, platform, head, wix, dist_dir, gitversion,
                   git_shorthash, DATA_FILES, exit_msg, run_start, stamps,
                   runs>>
    /\ UNCHANGED langVars
    /\ UNCHANGED l10n_listing

\* lines 126-159: os.environ['WIX'] raises KeyError when WIX is not set
Main_Constants ==
    /\ pc = "constants"
    /\ IF wix = None
       THEN Exit("KeyError: 'WIX'")
       ELSE pc' = "data_files" /\ UNCHANGED exit_msg
    /\ UNCHANGED <<version_info, platform, head, wix, dist_dir, dirs,
                   gitversion, git_shorthash, GITVERSION_FILENAME, DATA_FILES,
                   events, rmtree_calls, run_start, stamps, runs>>
    /\ UNCHANGED langVars
    /\ UNCHANGED l10n_listing

\* lines 162-164, with os.listdir("L10n") as the input
Main_DataFiles ==
    /\ pc = "data_files"
    /\ \E listing \in Listings :
          /\ l10n_listing' = listing
          /\ DATA_FILES' = generate_data_files(appname, GITVERSION_FILENAME,
                                               listing)
    /\ events' = Append(events, "data_files")
    /\ pc' = "freeze"
    /\ UNCHANGED <<version_info, platform, head, wix, dist_dir, dirs,
                   gitversion, git_shorthash, GITVERSION_FILENAME, exit_msg,
                   rmtree_calls, run_start, stamps, runs>>
    /\ UNCHANGED langVars

\* variant: a failed freeze is tried again
Main_Freeze_Retry ==
    /\ pc = "freeze"
    /\ events' = Append(events, "freeze")
    /\ \/ /\ dirs' = dirs \cup {DIST_DIR}
          /\ Exit("")
       \/ /\ Len(events) < 6
          /\ UNCHANGED <<dirs, pc, exit_msg>>
    /\ UNCHANGED <<version_info, platform, head, wix, dist_dir, gitversion,
                   git_shorthash, GITVERSION_FILENAME, DATA_FILES,
                   rmtree_calls, run_start, stamps, runs>>
    /\ UNCHANGED langVars
    /\ UNCHANGED l10n_listing

\* lines 166-200: py2exe.freeze either builds dist_dir, and the script ends
\* normally (exit_msg ""), or raises
Main_Freeze ==
    /\ pc = "freeze"
    /\ events' = Append(events, "freeze")
    /\ \/ /\ dirs' = dirs \cup {DIST_DIR}
          /\ Exit("")
       \/ /\ Exit("py2exe error")
          /\ UNCHANGED dirs
    /\ UNCHANGED <<version_info, platform, head, wix, dist_dir, gitversion,
                   git_shorthash, GITVERSION_FILENAME, DATA_FILES,
                   rmtree_calls, run_start, stamps, runs>>
    /\ UNCHANGED langVars
    /\ UNCHANGED l10n_listing

\* The script is started again on the same machine; HEAD may have moved.
Rerun ==
    /\ pc = "exited"
    /\ runs < MaxRuns
    /\ runs' = runs + 1
    /\ head' \in Hashes \cup {None}
    /\ pc' = "check_version"
    /\ git_shorthash' = None
    /\ GITVERSION_FILENAME' = None
    /\ l10n_listing' = None
    /\ DATA_FILES' = None
    /\ exit_msg' = None
    /\ events' = <<>>
    /\ run_start' = [gitversion |-> gitversion, dirs |-> dirs]
    /\ UNCHANGED <<version_info, platform, wix, dist_dir, dirs, gitversion,
                   rmtree_calls, stamps>>
    /\ UNCHANGED langVars

system_check ==
    \/ SystemCheck_Version
    \/ SystemCheck_Platform
    \/ SystemCheck_Hash
    \/ SystemCheck_Stamp
    \/ SystemCheck_Clean

Next ==
    \/ system_check
    \/ Main_Constants
    \/ Main_DataFiles
    \/ Main_Freeze
    \/ Rerun

Spec == Init /\ [][Next]_vars

NextCheck == system_check

SpecCheck == InitCheck /\ [][NextCheck]_vars

-----------------------------------------------------------------------------
(* windows_installer_display_lang *)

\* The text between the quotes of Languages="...": what re.search captures.
Tokens == {"1033", "1031", "1036", " 1031", "en", ""}

RECURSIVE JoinComma(_)
JoinComma(ts) ==
    IF Len(ts) = 1 THEN ts[1] ELSE ts[1] \o "," \o JoinComma(Tail(ts))

RECURSIVE TokenSeqs(_)
TokenSeqs(n) ==
    IF n = 0 THEN {<<>>}
    ELSE LET shorter == TokenSeqs(n - 1)
         IN  shorter \cup {Append(s, t) : <<s, t>> \in shorter \X Tokens}

WxsInputs == {None} \cup {JoinComma(ts) : ts \in TokenSeqs(MaxLcids) \ {<<>>}}

\* re.search(r'Languages\s*=\s*"(.+?)"', text): (.+?) needs a character
re_search(attr) == IF attr = None \/ attr = "" THEN None ELSE attr

\* str.split(",")
RECURSIVE split(_)
split(s) ==
    LET commas == {i \in 1..Len(s) : SubSeq(s, i, i) = ","}
    IN  IF commas = {} THEN <<s>>
        ELSE LET c == CHOOSE i \in commas : \A j \in commas : i <= j
             IN  <<SubSeq(s, 1, c - 1)>> \o split(SubSeq(s, c + 1, Len(s)))

\* int(x): surrounding blanks are dropped, then decimal digits are required
RECURSIVE strip(_)
strip(s) ==
    IF s = "" THEN s
    ELSE IF SubSeq(s, 1, 1) = " " THEN strip(SubSeq(s, 2, Len(s)))
    ELSE IF SubSeq(s, Len(s), Len(s)) = " " THEN strip(SubSeq(s, 1, Len(s) - 1))
    ELSE s

Digits == {"0", "1", "2", "3", "4", "5", "6", "7", "8", "9"}

IsInt(x) ==
    LET s == strip(x)
    IN  s # "" /\ \A i \in 1..Len(s) : SubSeq(s, i, i) \in Digits

RECURSIVE Decimal(_)
Decimal(s) ==
    IF s = "" THEN 0
    ELSE Decimal(SubSeq(s, 1, Len(s) - 1)) * 10
         + (CHOOSE d \in 0..9 : ToString(d) = SubSeq(s, Len(s), Len(s)))

int(x) == Decimal(strip(x))

\* join(gettempdir(), f"{app_name}_{lcid}.msi") and rf"{gettempdir()}\{lcid}.mst"
MsiName(app_name, lcid) == join(TempDir, app_name \o "_" \o ToString(lcid) \o ".msi")
MstName(lcid) == join(TempDir, ToString(lcid) \o ".mst")

NoFiles == [n \in {} |-> None]

Put(files, name, content) ==
    [n \in DOMAIN files \cup {name} |-> IF n = name THEN content ELSE files[n]]

InitLang ==
    /\ lpc = "parse"
    /\ wxs \in WxsInputs
    /\ lcids = <<>>
    /\ li = 0
    /\ tmp = NoFiles
    /\ pkg = InputPackage
    /\ cmds = <<>>
    /\ lerr = None
    /\ pc = "idle"
    /\ version_info = <<3, 11, 0>>
    /\ platform = "win32"
    /\ head = None
    /\ wix = None
    /\ dist_dir = DIST_DIR
    /\ dirs = {}
    /\ gitversion = ""
    /\ git_shorthash = None
    /\ GITVERSION_FILENAME = None
    /\ l10n_listing = None
    /\ DATA_FILES = None
    /\ exit_msg = None
    /\ events = <<>>
    /\ rmtree_calls = <<>>
    /\ run_start = [gitversion |-> "", dirs |-> {}]
    /\ stamps = <<>>
    /\ runs = 0

Raise(exc) ==
    /\ lpc' = "raised"
    /\ lerr' = exc

\* lines 93-100
Lang_Parse ==
    /\ lpc = "parse"
    /\ LET m == re_search(wxs)
       IN  IF m = None
           THEN Raise("AttributeError") /\ UNCHANGED lcids
           ELSE LET parts == split(m)
                IN  IF \E i \in 1..Len(parts) : ~IsInt(parts[i])
                    THEN Raise("ValueError") /\ UNCHANGED lcids
                    ELSE /\ lcids' = [i \in 1..Len(parts) |-> int(parts[i])]
                         /\ lpc' = "assert"
                         /\ UNCHANGED lerr
    /\ UNCHANGED <<wxs, li, tmp, pkg, cmds>>
    /\ UNCHANGED mainVars

\* variant: no check of the first locale
Lang_Assert_Skipped ==
    /\ lpc = "assert"
    /\ lpc' = "copy_base"
    /\ UNCHANGED <<wxs, lcids, li, tmp, pkg, cmds, lerr>>
    /\ UNCHANGED mainVars

\* line 101
Lang_Assert ==
    /\ lpc = "assert"
    /\ IF lcids[1] = DefaultLcid
       THEN lpc' = "copy_base" /\ UNCHANGED lerr
       ELSE Raise("AssertionError")
    /\ UNCHANGED <<wxs, lcids, li, tmp, pkg, cmds>>
    /\ UNCHANGED mainVars

\* the for statement of line 103: the next entry of lcids[1:], or the return
ForNext(i) == IF i > Len(lcids) THEN "done" ELSE "copy"

\* line 102
Lang_CopyBase ==
    /\ lpc = "copy_base"
    /\ tmp' = Put(tmp, MsiName(appname, DefaultLcid), pkg)
    /\ cmds' = Append(cmds, [op |-> "copyfile", src |-> filename,
                             dst |-> MsiName(appname, DefaultLcid)])
    /\ li' = 2
    /\ lpc' = ForNext(2)
    /\ UNCHANGED <<wxs, lcids, pkg, lerr>>
    /\ UNCHANGED mainVars

\* variant: each copy taken from the previous locale's copy
CopySource_Chained(i) ==
    IF i = 2 THEN MsiName(appname, DefaultLcid)
    ELSE MsiName(appname, lcids[i - 1])

\* the source of the per-locale copy (line 105)
CopySource(i) == MsiName(appname, DefaultLcid)

\* lines 104-107; shutil.copyfile raises SameFileError when src is dst
Lang_Copy ==
    /\ lpc = "copy"
    /\ LET src == CopySource(li)
           dst == MsiName(appname, lcids[li])
       IN  IF src = dst
           THEN Raise("SameFileError") /\ UNCHANGED <<tmp, cmds>>
           ELSE /\ tmp' = Put(tmp, dst, tmp[src])
                /\ cmds' = Append(cmds, [op |-> "copyfile", src |-> src,
                                         dst |-> dst])
                /\ lpc' = "stamp"
                /\ UNCHANGED lerr
    /\ UNCHANGED <<wxs, lcids, li, pkg>>
    /\ UNCHANGED mainVars

\* variant: a non-zero exit code ends the function
AfterSystem_Checked(rc, next) == IF rc = 0 THEN next ELSE "raised"

\* what follows an os.system call that returned rc: the return value is dropped
AfterSystem(rc, next) == next

\* variant: the 1033 working copy is stamped
StampTarget_Base(i) == MsiName(appname, DefaultLcid)

\* the package whose ProductLanguage is stamped (line 110)
StampTarget(i) == MsiName(appname, lcids[i])

\* lines 109-111: WiLangId.vbs <copy> Product <lcid>
Lang_Stamp ==
    /\ lpc = "stamp"
    /\ \E rc \in {0, 1} :
          LET file == StampTarget(li)
          IN  /\ tmp' = IF rc = 0
                        THEN Put(tmp, file, [tmp[file] EXCEPT !.lang = lcids[li]])
                        ELSE tmp
              /\ cmds' = Append(cmds, [op |-> "WiLangId", file |-> file,
                                       lcid |-> lcids[li], rc |-> rc])
              /\ lpc' = AfterSystem(rc, "transform")
              /\ lerr' = IF lpc' = "raised" THEN "SystemExit" ELSE lerr
    /\ UNCHANGED <<wxs, lcids, li, pkg>>
    /\ UNCHANGED mainVars

\* lines 112-115: MsiTran.Exe -g <1033 copy> <copy> <lcid>.mst
Lang_Transform ==
    /\ lpc = "transform"
    /\ \E rc \in {0, 1} :
          LET base == MsiName(appname, DefaultLcid)
              file == MsiName(appname, lcids[li])
          IN  /\ tmp' = IF rc = 0
                        THEN Put(tmp, MstName(lcids[li]),
                                 [kind |-> "mst", base |-> tmp[base].lang,
                                  target |-> tmp[file].lang])
                        ELSE tmp
              /\ cmds' = Append(cmds, [op |-> "MsiTran", base |-> base,
                                       file |-> file,
                                       out |-> MstName(lcids[li]), rc |-> rc])
              /\ lpc' = AfterSystem(rc, "embed")
              /\ lerr' = IF lpc' = "raised" THEN "SystemExit" ELSE lerr
    /\ UNCHANGED <<wxs, lcids, li, pkg>>
    /\ UNCHANGED mainVars

\* lines 116-118: WiSubStg.vbs <filename> <lcid>.mst <lcid>
Lang_Embed ==
    /\ lpc = "embed"
    /\ \E rc \in {0, 1} :
          LET mst == MstName(lcids[li])
          IN  /\ rc = 0 => mst \in DOMAIN tmp
              /\ pkg' = IF rc = 0
                        THEN [pkg EXCEPT !.subs =
                                 {s \in @ : s.lcid # lcids[li]} \cup
                                 {[lcid |-> lcids[li], mst |-> tmp[mst]]}]
                        ELSE pkg
              /\ cmds' = Append(cmds, [op |-> "WiSubStg", file |-> filename,
                                       mst |-> mst, lcid |-> lcids[li],
                                       rc |-> rc])
              /\ li' = li + 1
              /\ lpc' = AfterSystem(rc, ForNext(li + 1))
              /\ lerr' = IF lpc' = "raised" THEN "SystemExit" ELSE lerr
    /\ UNCHANGED <<wxs, lcids, tmp>>
    /\ UNCHANGED mainVars

windows_installer_display_lang ==
    \/ Lang_Parse
    \/ Lang_Assert
    \/ Lang_CopyBase
    \/ Lang_Copy
    \/ Lang_Stamp
    \/ Lang_Transform
    \/ Lang_Embed

NextLang == windows_installer_display_lang

SpecLang == InitLang /\ [][NextLang]_vars

-----------------------------------------------------------------------------
(* Properties of system_check and the main block *)

VersionBelowMinimum ==
    \/ version_info[1] < 3
    \/ version_info[1] = 3 /\ version_info[2] < 11

Unsupported == VersionBelowMinimum \/ platform # "win32" \/ head = None

Range(s) == {s[i] : i \in 1..Len(s)}

\* C1: system_check ends the process with one of its three messages exactly
\* when the version is below 3.11, the platform is not win32 or the git hash
\* is None; in every other case it returns ".gitversion" and nothing exits.
C1_PreflightAcceptsExactlySupported ==
    /\ pc = "exited" => Unsupported /\ exit_msg \in PreflightMsgs
    /\ pc = "constants" =>
          /\ ~Unsupported
          /\ GITVERSION_FILENAME = gitversion_file
          /\ exit_msg = None
    /\ Unsupported => pc \in {"check_version", "check_platform", "get_hash",
                              "exited"}
    /\ exit_msg = MsgVersion <=> pc = "exited" /\ VersionBelowMinimum
    /\ exit_msg = MsgPlatform <=>
          pc = "exited" /\ ~VersionBelowMinimum /\ platform # "win32"
    /\ exit_msg = MsgHash <=>
          pc = "exited" /\ ~VersionBelowMinimum /\ platform = "win32"
                        /\ head = None

C1_Witness ==
    /\ pc = "constants"
    /\ version_info = <<3, 11, 0>>
    /\ GITVERSION_FILENAME = gitversion_file

NoPartialOutput ==
    /\ gitversion = run_start.gitversion
    /\ dirs = run_start.dirs
    /\ DATA_FILES = None
    /\ Range(events) \cap {"stamp", "rmtree", "data_files", "freeze"} = {}

\* C2: a run whose preflight fails ends at once and leaves nothing behind: the
\* stamp file and the directories are as they were when the run started, no
\* manifest is built and py2exe.freeze is not invoked.
C2_PreflightFailureLeavesNoOutput ==
    /\ exit_msg \in PreflightMsgs => pc = "exited"
    /\ (Unsupported \/ exit_msg \in PreflightMsgs) => NoPartialOutput

C2_Witness ==
    /\ pc = "exited"
    /\ exit_msg = MsgHash
    /\ runs = 2
    /\ gitversion \in Hashes
    /\ DIST_DIR \in dirs

\* C3: rmtree is never called with a path of length 0 or 1, whether or not
\* that path is a directory; it is called only in a run whose checks passed,
\* with a dist_dir longer than one character that was a directory.
C3_NoRmtreeOfDegeneratePath ==
    /\ \A i \in 1..Len(rmtree_calls) : Len(rmtree_calls[i]) > 1
    /\ Len(dist_dir) <= 1 => rmtree_calls = <<>> /\ dirs = run_start.dirs
    /\ rmtree_calls # <<>> =>
          /\ rmtree_calls = <<dist_dir>>
          /\ ~Unsupported
          /\ Len(dist_dir) > 1
          /\ dist_dir \in run_start.dirs
          /\ dist_dir \notin dirs
    /\ (pc = "constants" /\ Len(dist_dir) > 1 /\ dist_dir \in run_start.dirs)
          => rmtree_calls = <<dist_dir>>

C3_Witness ==
    /\ pc = "constants"
    /\ dist_dir = "."
    /\ dist_dir \in dirs
    /\ rmtree_calls = <<>>

HasSuffixStrings(x) ==
    \E k \in 1..Len(x) : SubSeq(x, k, Len(x)) = ".strings"

\* C6: the L10n entry of the manifest holds exactly the listed names that end
\* in ".strings", each joined under L10n, once each and in listing order; it
\* is the empty list when no listed name matches.
C6_ManifestHasExactlyStringsFiles ==
    DATA_FILES # None =>
        LET entry == DATA_FILES[2]
            matching == {x \in Range(l10n_listing) : HasSuffixStrings(x)}
        IN  /\ entry[1] = "L10n"
            /\ Range(entry[2]) = {"L10n" \o "\\" \o x : x \in matching}
            /\ Len(entry[2]) = Cardinality(matching)
            /\ matching = {} => entry[2] = <<>>

C6_Witness ==
    /\ DATA_FILES # None
    /\ Range(l10n_listing) = {"de.strings", "fr.strings", "readme.txt"}
    /\ Range(DATA_FILES[2][2]) = {"L10n\\de.strings", "L10n\\fr.strings"}

MainOrder == <<"system_check", "stamp", "data_files", "freeze">>

Components == SelectSeq(events, LAMBDA e : e # "rmtree")

IsPrefix(s, t) == Len(s) <= Len(t) /\ SubSeq(t, 1, Len(s)) = s

FrozeAndExited == pc = "exited" /\ exit_msg = ""

\* C7 as stated: a run of the main block that ends normally has executed
\* preflight, stamp write, data file assembly, freeze and the installer
\* language splitter, once each.
C7_EveryComponentOncePerRun ==
    FrozeAndExited => Components = MainOrder /\ lpc = "done"

\* C7, amended: in a run of the main block the preflight check, the stamp
\* write, the data file assembly and the freeze invocation execute at most once
\* each and in that order, exactly once each in a run that ends normally;
\* freeze is invoked only after preflight succeeded and the manifest was
\* built; the main block never invokes the installer language splitter.
C7_MainComponentsOnceInOrder ==
    /\ IsPrefix(Components, MainOrder)
    /\ FrozeAndExited => Components = MainOrder
    /\ "freeze" \in Range(events) =>
          ~Unsupported /\ GITVERSION_FILENAME # None /\ DATA_FILES # None
    /\ lpc = "idle" /\ cmds = <<>>

C7_Witness == FrozeAndExited /\ runs = 2 /\ Components = MainOrder

\* C8: after every successful system_check .gitversion holds exactly the
\* current git short hash, whatever it held before, so two runs that read the
\* same hash leave the same content.
C8_StampIsExactlyTheHash ==
    /\ "stamp" \in Range(events) => gitversion = head /\ head \in Hashes
    /\ \A i \in 1..Len(stamps) : stamps[i].content = stamps[i].hash
    /\ \A i, j \in 1..Len(stamps) :
          stamps[i].hash = stamps[j].hash =>
              stamps[i].content = stamps[j].content

C8_Witness ==
    /\ Len(stamps) = 2
    /\ stamps[1].hash = stamps[2].hash
    /\ pc = "constants"
    /\ runs = 2

-----------------------------------------------------------------------------
(* Properties of windows_installer_display_lang *)

BaseCopy == MsiName(appname, DefaultLcid)

Returned == lpc \in {"done", "raised"}

ParsedWithDefaultFirst == lcids # <<>> /\ lcids[1] = DefaultLcid

NoRepeat(s) == \A i, j \in 1..Len(s) : i # j => s[i] # s[j]

NoDefaultRepeat(s) == \A i \in 2..Len(s) : s[i] # DefaultLcid

\* C4: when the parsed list does not start with 1033 the function raises
\* before it copies anything: the temp directory gets no file, no SDK tool is
\* run and the input package is untouched.
C4_WrongDefaultAbortsBeforeCopy ==
    (lcids # <<>> /\ lcids[1] # DefaultLcid) =>
        /\ lpc \in {"assert", "raised"}
        /\ lpc = "raised" => lerr = "AssertionError"
        /\ DOMAIN tmp = {}
        /\ cmds = <<>>
        /\ pkg = InputPackage

C4_Witness ==
    /\ lpc = "raised"
    /\ lerr = "AssertionError"
    /\ lcids = <<1031, 1033, 1036>>

LocaleCopies ==
    SelectSeq(cmds, LAMBDA c : c.op = "copyfile" /\ c.dst # BaseCopy)

InputCopies ==
    SelectSeq(cmds, LAMBDA c : c.op = "copyfile" /\ c.src = filename)

MsiFiles == {f \in DOMAIN tmp : tmp[f].kind = "msi"}

ExactlyOneCopyPerLocale ==
    /\ lpc = "done"
    /\ cmds[1] = [op |-> "copyfile", src |-> filename, dst |-> BaseCopy]
    /\ Len(InputCopies) = 1
    /\ tmp[BaseCopy] = InputPackage
    /\ Len(LocaleCopies) = Len(lcids) - 1
    /\ \A i \in 1..Len(LocaleCopies) :
          LocaleCopies[i] = [op |-> "copyfile", src |-> BaseCopy,
                             dst |-> MsiName(appname, lcids[i + 1])]
    /\ MsiFiles \ {BaseCopy} =
          {MsiName(appname, lcids[i]) : i \in 2..Len(lcids)}
    /\ Cardinality(MsiFiles \ {BaseCopy}) = Len(lcids) - 1
    /\ \A i \in 2..Len(lcids) :
          LET copy == tmp[MsiName(appname, lcids[i])]
          IN  copy.subs = {} /\ copy.lang \in {DefaultLcid, lcids[i]}

\* C5 as stated: for every parsed list [1033, l1, ..., ln] the function ends
\* with exactly n additional package copies, one named for each li, each
\* copied from the 1033 working copy.
C5_CopyPerLocaleForEveryList ==
    (Returned /\ ParsedWithDefaultFirst) => ExactlyOneCopyPerLocale

\* C5, amended: for every parsed list [1033, l1, ..., ln] in which no locale
\* ID occurs twice, the function ends with exactly n additional package
\* copies, one named for each li, each copied from the 1033 working copy,
\* which is a copy of the input package taken once, before any transform is
\* embedded.
C5_CopyPerLocaleForDistinctLists ==
    (Returned /\ ParsedWithDefaultFirst /\ NoRepeat(lcids))
        => ExactlyOneCopyPerLocale

C5_Witness ==
    /\ lpc = "done"
    /\ lcids = <<1033, 1031, 1036>>
    /\ Cardinality(MsiFiles) = 3
    /\ pkg.subs # {}

\* the k-th call the loop makes, counted from the first per-locale copy
ExpectedStep(k) ==
    LET lcid == lcids[2 + ((k - 1) \div 4)]
        file == MsiName(appname, lcid)
    IN  CASE (k - 1) % 4 = 0 ->
                 [op |-> "copyfile", src |-> BaseCopy, dst |-> file]
          [] (k - 1) % 4 = 1 ->
                 [op |-> "WiLangId", file |-> file, lcid |-> lcid]
          [] (k - 1) % 4 = 2 ->
                 [op |-> "MsiTran", base |-> BaseCopy, file |-> file,
                  out |-> MstName(lcid)]
          [] OTHER ->
                 [op |-> "WiSubStg", file |-> filename, mst |-> MstName(lcid),
                  lcid |-> lcid]

WithoutRc(c) == [f \in DOMAIN c \ {"rc"} |-> c[f]]

FourStepsInListOrder ==
    /\ Len(cmds) <= 1 + 4 * (Len(lcids) - 1)
    /\ \A k \in 1..(Len(cmds) - 1) : WithoutRc(cmds[k + 1]) = ExpectedStep(k)
    /\ BaseCopy \in DOMAIN tmp => tmp[BaseCopy] = InputPackage

\* C10 as stated: every non-default locale of the parsed list, in list order,
\* gets the four steps copy, stamp, transform, embed, and the function
\* completes them for all of them.
C10_FourStepsForEveryLocale ==
    /\ ParsedWithDefaultFirst => FourStepsInListOrder
    /\ (Returned /\ ParsedWithDefaultFirst) =>
          lpc = "done" /\ Len(cmds) = 1 + 4 * (Len(lcids) - 1)

\* C10, amended: when 1033 does not occur again after the first position,
\* every further locale of the parsed list, in list order, gets exactly the
\* four steps copy of the 1033 working copy, stamp of that copy, transform
\* <lcid>.mst between the 1033 working copy and the stamped copy, embedding
\* into the input package; one locale's steps end before the next one's
\* begin, and the 1033 working copy is never changed once made.
C10_FourStepsWhenDefaultNotRepeated ==
    /\ ParsedWithDefaultFirst => FourStepsInListOrder
    /\ (Returned /\ ParsedWithDefaultFirst /\ NoDefaultRepeat(lcids)) =>
          lpc = "done" /\ Len(cmds) = 1 + 4 * (Len(lcids) - 1)

C10_Witness ==
    /\ lpc = "done"
    /\ lcids = <<1033, 1036, 1031>>
    /\ Len(cmds) = 9
    /\ tmp[MsiName(appname, 1036)].lang = 1036
    /\ tmp[MsiName(appname, 1031)].lang = 1031

SystemCalls ==
    SelectSeq(cmds, LAMBDA c : c.op \in {"WiLangId", "MsiTran", "WiSubStg"})

\* the os.system calls made so far when the loop stands at lpc with index li
CallsDue ==
    CASE lpc \in {"copy", "stamp"} -> 3 * (li - 2)
      [] lpc = "transform" -> 3 * (li - 2) + 1
      [] lpc = "embed" -> 3 * (li - 2) + 2
      [] lpc = "done" -> 3 * (Len(lcids) - 1)
      [] OTHER -> Len(SystemCalls)

ExitCodesIgnored ==
    /\ lerr \notin {"SystemExit"}
    /\ Len(SystemCalls) = CallsDue
    /\ \A k \in 1..Len(SystemCalls) :
          SystemCalls[k].op = <<"WiLangId", "MsiTran", "WiSubStg">>[1 + ((k - 1) % 3)]

\* C9 as stated: whatever the three SDK commands return, the function runs
\* all three for every locale of the list and returns normally.
C9_AllCommandsRunForEveryList ==
    /\ ParsedWithDefaultFirst => ExitCodesIgnored
    /\ (Returned /\ ParsedWithDefaultFirst) =>
          /\ lpc = "done"
          /\ lerr = None
          /\ Len(SystemCalls) = 3 * (Len(lcids) - 1)

\* C9, amended: the exit codes of the three SDK commands are never checked;
\* when 1033 does not occur again after the first position, then for every
\* combination of successes and failures the function runs all three commands
\* for every further locale and returns normally without reporting an error.
C9_AllCommandsRunWhenDefaultNotRepeated ==
    /\ ParsedWithDefaultFirst => ExitCodesIgnored
    /\ (Returned /\ ParsedWithDefaultFirst /\ NoDefaultRepeat(lcids)) =>
          /\ lpc = "done"
          /\ lerr = None
          /\ Len(SystemCalls) = 3 * (Len(lcids) - 1)

C9_Witness ==
    /\ lpc = "done"
    /\ Len(lcids) = 3
    /\ Len(SystemCalls) = 6
    /\ \A k \in 1..Len(SystemCalls) : SystemCalls[k].rc = 1

=============================================================================
